---- MODULE Spec2Model ----
(***************************************************************************)
(* Model of src/src/remote.js: the webhook handlers that detect whether a  *)
(* fork has diverged from its upstream and open a pull request on it.      *)
(*                                                                         *)
(* JavaScript runs one callback at a time, so one action is one event of   *)
(* the event loop: the arrival of a webhook, or the settling of one remote *)
(* call together with every promise continuation that runs because of it   *)
(* (up to the next remote calls, which it issues).  A remote call takes    *)
(* its effect on, or reads, the remote host at the moment it settles.      *)
(*                                                                         *)
(* Spec is the webhook with its two flows.  SpecPublish is postUpdate      *)
(* called on its own, with any repo argument.  SpecEph is                  *)
(* createTemporaryRepo, whose calls are those of src/unnamed/part_000.     *)
(***************************************************************************)
EXTENDS Integers, Sequences, FiniteSets

\* ---------------------------------------------------------------- bounds
MaxForks == 2        \* forks of the upstream repository
MaxHandlings == 2    \* webhook deliveries handled in one run
MaxSha == 2          \* distinct commit ids
MaxPushes == 1       \* pushes to the upstream branch during a run
MaxFailures == 1     \* remote calls that fail during a run
MaxFanOuts == 1      \* deliveries for a push to the upstream itself
MaxCloses == 1       \* pull requests closed or merged by a user during a run
MaxEphCalls == 2     \* invocations of createTemporaryRepo

Upstream == 0
Forks == 1..MaxForks
Repos == {Upstream} \cup Forks
Handlings == 1..MaxHandlings
Shas == 1..MaxSha
NoParent == -1
NoRepo == -2         \* an absent repo argument: null or undefined
FalsyRepo == -3      \* a repo argument that is falsy otherwise: false, 0, ''
Slots == Repos \cup {NoRepo, FalsyRepo}

VARIABLES
    event,      \* event[h]: req.body.repository of handling h (repo, fork flag)
    hpc,        \* hpc[h]: where the handler of handling h stands
    pipe,       \* pipe[h][t]: the promise chain of handling h for target repo t
    sent,       \* sent[h]: the res.send calls of handling h, in order
    head,       \* remote host: head commit of each repo's default branch
    open,       \* remote host: open[t][s] open pull requests on t with head sha s
    pushes,     \* pushes to the upstream so far
    closes,     \* pull requests closed so far
    failures,   \* failed remote calls so far
    htrace,     \* htrace[h]: the gh.reposGetForks call of handling h and its answer
    args,       \* args[h]: the arguments of a direct call of postUpdate
    eph,        \* eph[k]: invocation k of createTemporaryRepo
    bot         \* the repos, collaborators and pull requests of backstroke-bot

vars == <<event, hpc, pipe, sent, head, open, pushes, closes, failures, htrace,
          args, eph, bot>>

\* ------------------------------------------------------------ remote host
\* repoData.parent of the metadata the host returns for repo r.
ParentOf(r) == IF r \in Forks THEN Upstream ELSE NoParent

\* owner.login and default_branch of the metadata of repo r: every repo of
\* the model has an owner of its own, and a fork may have renamed its
\* default branch.
Login(r) == r
DefaultBranch(r) ==
    IF r \in Forks /\ r % 2 = 0 THEN "main" ELSE "master"

\* The forks the host lists for repo r.
ForksOf(r) == IF r = Upstream THEN Forks ELSE {}

\* The host's answer to pullRequestsGetAll(state: open, head: parent:branch) on t.
OpenPulls(t) == open[t]

\* The host after pullRequestsCreate on t with head parent:default_branch: the
\* new pull request's head sha is the parent branch's head at that moment.
CreatePull(t) == [open EXCEPT ![t][head[ParentOf(t)]] = @ + 1]

\* ------------------------------------------------------------- messages
\* One entry of a pipeline's trace: a remote call issued, or its settling
\* (sha: the commit id the answer carries, 0 when it carries none).
\* head, base: the head and base arguments of a pull request call.
NoRef == [owner |-> NoParent, branch |-> "none"]
CallPull(api, r, hd, base) ==
    [ev |-> "call", api |-> api, repo |-> r, sha |-> 0, head |-> hd, base |-> base]
Call(api, r) == CallPull(api, r, NoRef, "none")
Ok(api, r, sha) ==
    [ev |-> "ok", api |-> api, repo |-> r, sha |-> sha, head |-> NoRef, base |-> "none"]
Err(api, r) ==
    [ev |-> "err", api |-> api, repo |-> r, sha |-> 0, head |-> NoRef, base |-> "none"]

ThanksAnyway == [kind |-> "thanks-anyway", n |-> 0, err |-> "none"]
CoolThanks == [kind |-> "cool-thanks", n |-> 0, err |-> "none"]
Opened(n) == [kind |-> "opened", n |-> n, err |-> "none"]
UhhError(e) == [kind |-> "uhh-error", n |-> 0, err |-> e]

IdlePipe ==
    [pc |-> "idle", base |-> "none", baseSha |-> 0, upstream |-> "none",
     upstreamSha |-> 0, result |-> {}, existingPulls |-> {}, value |-> "none",
     err |-> "none", trace |-> <<>>]

\* --------------------------------------------------------- pure functions
\* Variant: no check of repoData.parent.
hasParent_always(parent) == TRUE

\* hasDivergedFromUpstream: is the fetched metadata that of a fork?
hasParent(parent) == parent # NoParent

\* Variant: the two SHAs reported in each other's place.
divergenceResult_swapped(b, u) ==
    [diverged |-> b # u, baseSha |-> u, upstreamSha |-> b]

\* hasDivergedFromUpstream: the result built from the two fetched branches.
divergenceResult(b, u) ==
    [diverged |-> b # u, baseSha |-> b, upstreamSha |-> u]

\* Variant: every event is taken for a push to a parent.
isForkEvent_never(repository) == FALSE

\* webhook: req.body && req.body.repository && req.body.repository.fork
isForkEvent(repository) == repository.fork

\* postUpdate: head: `${repo.parent.owner.login}:${repo.parent.default_branch}`
headOf(parent) == [owner |-> Login(parent), branch |-> DefaultBranch(parent)]

\* Variant: the base is the default branch of the parent.
baseOf_parent(t) == DefaultBranch(ParentOf(t))

\* postUpdate: base: repo.default_branch
baseOf(t) == DefaultBranch(t)

\* Variant: any open pull request from the parent's branch counts as a duplicate.
duplicateRequests_any(existingPulls, upstreamSha) ==
    \E s \in DOMAIN existingPulls : existingPulls[s] > 0

\* Variant: the listing is never searched for a duplicate.
duplicateRequests_never(existingPulls, upstreamSha) == FALSE

\* postUpdate: existingPulls.find(pull => pull.head.sha === upstreamSha)
duplicateRequests(existingPulls, upstreamSha) ==
    \E s \in DOMAIN existingPulls : existingPulls[s] > 0 /\ s = upstreamSha

\* Variant: postUpdate whatever detection returned.
shouldPostUpdate_always(result) == TRUE

\* the dispatchers: if (diverged) postUpdate(...)
shouldPostUpdate(result) == result.diverged

\* Variant: every element of reqs is counted.
madePRs_all(pipes, targets) == Cardinality(targets)

\* isParentFindForks: reqs.filter(i => i).length
madePRs(pipes, targets) ==
    Cardinality({t \in targets : pipes[t].value = "pull"})

\* Variant: fulfilled as soon as one element is.
allFulfilled_any(pipes, targets) ==
    \E t \in targets : pipes[t].pc = "fulfilled"

\* Promise.all(pullreqs) is fulfilled: every element is.
allFulfilled(pipes, targets) ==
    \A t \in targets : pipes[t].pc = "fulfilled"

\* ----------------------------------------------------------- the handlers
Targets(h) == {t \in Repos : pipe[h][t].pc # "idle"}

\* Variant: the rejection is swallowed without an answer.
catchSend_silent(log, e) == log

\* .catch(err => res.send(`Uhh, error: ${err}`))
catchSend(log, e) == Append(log, UhhError(e))

\* The res.send calls of isForkMergeUpstream once its chain has settled as p.
\* resThrows: whether res.send throws on a response that was already sent
\* (the not-diverged path sends twice; a throw lands in the .catch).
isForkMergeUpstreamSends(p, resThrows) ==
    IF p.pc = "rejected" THEN <<UhhError(p.err)>>
    ELSE IF p.pc # "fulfilled" THEN <<>>
    ELSE IF p.value = "pull" THEN <<CoolThanks>>
    ELSE IF resThrows THEN <<ThanksAnyway, CoolThanks, UhhError("headers-sent")>>
    ELSE <<ThanksAnyway, CoolThanks>>

\* The res.send of isParentFindForks: the count, once Promise.all is fulfilled.
isParentFindForksSends(np, targets) ==
    IF allFulfilled(np, targets) THEN <<Opened(madePRs(np, targets))>> ELSE <<>>

Settled(p) == p.pc \in {"fulfilled", "rejected"}

\* The res.send calls that follow from pipeline t of handling h moving to
\* np[t] (np: the handling's pipelines after the step).  A chain settles
\* once: a call answered after that has no continuation.
Sends(h, t, np, resThrows) ==
    IF Settled(pipe[h][t]) \/ hpc[h] = "postUpdate" THEN <<>>
    ELSE IF hpc[h] = "isForkMergeUpstream"
    THEN isForkMergeUpstreamSends(np[t], resThrows)
    ELSE IF np[t].pc = "fulfilled"
    THEN isParentFindForksSends(np, Targets(h))
    ELSE <<>>

Log(p, evs) == [p EXCEPT !.trace = @ \o evs]

\* Variant: a failed chain starts over.
Reject_retry(p, e) ==
    [p EXCEPT !.pc = "reposGet", !.trace = @ \o <<Call("reposGet", p.trace[1].repo)>>]

\* A chain rejects with error e: nothing is called again.
Reject(p, e) == [p EXCEPT !.pc = "rejected", !.err = e]

\* Variant: a rejected chain also ends the sibling chains still running.
settle_abortSiblings(pipes, t, p) ==
    [x \in DOMAIN pipes |->
        IF x = t THEN p
        ELSE IF p.pc = "rejected" /\ pipes[x].pc \notin {"idle", "fulfilled", "rejected"}
        THEN Reject(pipes[x], "aborted")
        ELSE pipes[x]]

\* The promise chains of one handling after chain t moves to p: each chain
\* is a promise of its own, a sibling's settling does not touch it.
settle(pipes, t, p) == [pipes EXCEPT ![t] = p]

\* Pipeline t of handling h moves to p; the handler reacts.
Step(h, t, p, resThrows) ==
    LET np == settle(pipe[h], t, p)
    IN /\ pipe' = [pipe EXCEPT ![h] = np]
       /\ sent' = [sent EXCEPT ![h] = @ \o Sends(h, t, np, resThrows)]

\* hasDivergedFromUpstream begins: gh.reposGet is issued.
startDetection(t) ==
    [IdlePipe EXCEPT !.pc = "reposGet", !.trace = <<Call("reposGet", t)>>]

\* Variant: the parent's branch is fetched once the fork's has arrived.
issueBranchFetches_sequential(p, t) ==
    Log([p EXCEPT !.pc = "reposGetBranch", !.base = "pending", !.upstream = "pending"],
        <<Call("reposGetBranch", t)>>)

\* hasDivergedFromUpstream, repoData has a parent: both branch fetches are
\* issued in the same continuation, under one Promise.all.
issueBranchFetches(p, t) ==
    Log([p EXCEPT !.pc = "reposGetBranch", !.base = "pending", !.upstream = "pending"],
        <<Call("reposGetBranch", t), Call("reposGetBranch", ParentOf(t))>>)

\* postUpdate(platform, repo, upstreamSha).  A falsy repo takes the last
\* else branch, whose message reads repo.full_name: a TypeError when repo is
\* null or undefined.
postUpdate(p, t, parent) ==
    IF t = NoRepo THEN Reject(p, "type-error")
    ELSE IF t = FalsyRepo THEN Reject(p, "no-repository")
    ELSE IF hasParent(parent)
    THEN Log([p EXCEPT !.pc = "pullRequestsGetAll"],
             <<CallPull("pullRequestsGetAll", t, headOf(parent), "none")>>)
    ELSE Reject(p, "not-a-fork")

\* The continuation of hasDivergedFromUpstream in both dispatchers.
afterDetection(p, t, result) ==
    IF shouldPostUpdate(result)
    THEN postUpdate([p EXCEPT !.result = {result}], t, ParentOf(t))
    ELSE [p EXCEPT !.pc = "fulfilled", !.value = "null", !.result = {result}]

\* ---------------------------------------------------------------- actions
NoArgs == [repo |-> NoRepo, upstreamSha |-> 0]

\* The upstreamSha argument of postUpdate: the dispatchers pass the
\* upstreamSha of the detection result, a direct caller its own.
upstreamShaArg(h, p) ==
    IF hpc[h] = "postUpdate" THEN args[h].upstreamSha
    ELSE (CHOOSE x \in p.result : TRUE).upstreamSha

\* createTemporaryRepo: the source repos it is called with (repo1 of the
\* tests, and a private one on another branch).
Repo1 == [user |-> "octo", name |-> "app", branch |-> "master", private |-> FALSE]
Repo2 == [user |-> "acme", name |-> "lib", branch |-> "dev", private |-> TRUE]
SourceRepos == {Repo1, Repo2}
EphCalls == 1..MaxEphCalls
IdleEph(src) ==
    [pc |-> "idle", src |-> src, trace |-> <<>>, number |-> 0, ret |-> {},
     after |-> {}]
EmptyBot == [repos |-> {}, private |-> {}, collab |-> {}, pulls |-> {}]

Init ==
    /\ event \in [Handlings -> [repo : Repos, fork : BOOLEAN]]
    /\ Cardinality({h \in Handlings : ~event[h].fork /\ event[h].repo = Upstream})
         <= MaxFanOuts
    /\ hpc = [h \in Handlings |-> "idle"]
    /\ pipe = [h \in Handlings |-> [t \in Slots |-> IdlePipe]]
    /\ sent = [h \in Handlings |-> <<>>]
    /\ head \in [Repos -> Shas]
    /\ head[Upstream] = 1     \* commit ids are interchangeable
    /\ open = [t \in Repos |-> [s \in Shas |-> 0]]
    /\ pushes = 0
    /\ closes = 0
    /\ failures = 0
    /\ htrace = [h \in Handlings |-> <<>>]
    /\ args = [h \in Handlings |-> NoArgs]
    /\ eph = [k \in EphCalls |-> IdleEph(Repo1)]
    /\ bot = EmptyBot

\* webhook(req, res): dispatch on req.body.repository.fork.
webhook(h) ==
    /\ hpc[h] = "idle"
    /\ IF isForkEvent(event[h])
       THEN /\ hpc' = [hpc EXCEPT ![h] = "isForkMergeUpstream"]
            /\ pipe' = [pipe EXCEPT ![h][event[h].repo] = startDetection(event[h].repo)]
            /\ htrace' = htrace
       ELSE /\ hpc' = [hpc EXCEPT ![h] = "reposGetForks"]
            /\ pipe' = pipe
            /\ htrace' = [htrace EXCEPT ![h] = <<Call("reposGetForks", event[h].repo)>>]
    /\ UNCHANGED <<event, sent, head, open, pushes, closes, failures, args,
                 eph, bot>>

\* gh.reposGetForks resolves: one pipeline per fork, then Promise.all.
reposGetForksResolve(h) ==
    /\ hpc[h] = "reposGetForks"
    /\ hpc' = [hpc EXCEPT ![h] = "isParentFindForks"]
    /\ LET forks == ForksOf(event[h].repo)
           np == [t \in Slots |-> IF t \in forks THEN startDetection(t) ELSE pipe[h][t]]
       IN /\ pipe' = [pipe EXCEPT ![h] = np]
          /\ sent' = [sent EXCEPT ![h] = @ \o isParentFindForksSends(np, forks)]
    /\ htrace' = [htrace EXCEPT ![h] = Append(@, Ok("reposGetForks", event[h].repo, 0))]
    /\ UNCHANGED <<event, head, open, pushes, closes, failures, args,
                 eph, bot>>

\* gh.reposGetForks rejects: the .catch of isParentFindForks.
reposGetForksReject(h) ==
    /\ hpc[h] = "reposGetForks"
    /\ failures < MaxFailures
    /\ failures' = failures + 1
    /\ hpc' = [hpc EXCEPT ![h] = "rejected"]
    /\ sent' = [sent EXCEPT ![h] = catchSend(@, "remote-error")]
    /\ htrace' = [htrace EXCEPT ![h] = Append(@, Err("reposGetForks", event[h].repo))]
    /\ UNCHANGED <<event, pipe, head, open, pushes, closes, args,
                 eph, bot>>

\* gh.reposGet resolves with repoData.
reposGetResolve(h, t) ==
    /\ pipe[h][t].pc = "reposGet"
    /\ LET p == Log(pipe[h][t], <<Ok("reposGet", t, 0)>>)
       IN IF hasParent(ParentOf(t))
          THEN Step(h, t, issueBranchFetches(p, t), FALSE)
          ELSE Step(h, t, Reject(p, "not-a-fork"), FALSE)
    /\ UNCHANGED <<event, hpc, head, open, pushes, closes, failures, htrace, args,
                 eph, bot>>

reposGetReject(h, t) ==
    /\ pipe[h][t].pc = "reposGet"
    /\ failures < MaxFailures
    /\ failures' = failures + 1
    /\ Step(h, t, Reject(Log(pipe[h][t], <<Err("reposGet", t)>>), "remote-error"), FALSE)
    /\ UNCHANGED <<event, hpc, head, open, pushes, closes, htrace, args,
                 eph, bot>>

\* The base branch (the fork's own) resolves.
reposGetBranchBaseResolve(h, t) ==
    /\ pipe[h][t].base = "pending"
    /\ LET p == Log([pipe[h][t] EXCEPT !.base = "fulfilled", !.baseSha = head[t]],
                    <<Ok("reposGetBranch", t, head[t])>>)
       IN \E resThrows \in BOOLEAN :
            IF p.pc = "reposGetBranch" /\ p.upstream = "fulfilled"
            THEN Step(h, t, afterDetection(p, t, divergenceResult(p.baseSha, p.upstreamSha)),
                      resThrows)
            ELSE /\ ~resThrows
                 /\ Step(h, t, p, FALSE)
    /\ UNCHANGED <<event, hpc, head, open, pushes, closes, failures, htrace, args,
                 eph, bot>>

\* The upstream branch (the parent's) resolves.
reposGetBranchUpstreamResolve(h, t) ==
    /\ pipe[h][t].upstream = "pending"
    /\ LET p == Log([pipe[h][t] EXCEPT !.upstream = "fulfilled",
                                       !.upstreamSha = head[ParentOf(t)]],
                    <<Ok("reposGetBranch", ParentOf(t), head[ParentOf(t)])>>)
       IN \E resThrows \in BOOLEAN :
            IF p.pc = "reposGetBranch" /\ p.base = "fulfilled"
            THEN Step(h, t, afterDetection(p, t, divergenceResult(p.baseSha, p.upstreamSha)),
                      resThrows)
            ELSE /\ ~resThrows
                 /\ Step(h, t, p, FALSE)
    /\ UNCHANGED <<event, hpc, head, open, pushes, closes, failures, htrace, args,
                 eph, bot>>

\* Promise.all rejects with the first rejection; a later one is dropped.
reposGetBranchBaseReject(h, t) ==
    /\ pipe[h][t].base = "pending"
    /\ failures < MaxFailures
    /\ failures' = failures + 1
    /\ LET p == Log([pipe[h][t] EXCEPT !.base = "rejected"], <<Err("reposGetBranch", t)>>)
       IN IF p.pc = "reposGetBranch"
          THEN Step(h, t, Reject(p, "remote-error"), FALSE)
          ELSE Step(h, t, p, FALSE)
    /\ UNCHANGED <<event, hpc, head, open, pushes, closes, htrace, args,
                 eph, bot>>

reposGetBranchUpstreamReject(h, t) ==
    /\ pipe[h][t].upstream = "pending"
    /\ failures < MaxFailures
    /\ failures' = failures + 1
    /\ LET p == Log([pipe[h][t] EXCEPT !.upstream = "rejected"],
                    <<Err("reposGetBranch", ParentOf(t))>>)
       IN IF p.pc = "reposGetBranch"
          THEN Step(h, t, Reject(p, "remote-error"), FALSE)
          ELSE Step(h, t, p, FALSE)
    /\ UNCHANGED <<event, hpc, head, open, pushes, closes, htrace, args,
                 eph, bot>>

\* gh.pullRequestsGetAll resolves with existingPulls.
pullRequestsGetAllResolve(h, t) ==
    /\ pipe[h][t].pc = "pullRequestsGetAll"
    /\ LET p == Log([pipe[h][t] EXCEPT !.existingPulls = {OpenPulls(t)}],
                    <<Ok("pullRequestsGetAll", t, 0)>>)
       IN IF ~duplicateRequests(OpenPulls(t), upstreamShaArg(h, p))
          THEN Step(h, t, Log([p EXCEPT !.pc = "pullRequestsCreate"],
                              <<CallPull("pullRequestsCreate", t, headOf(ParentOf(t)),
                                         baseOf(t))>>), FALSE)
          ELSE Step(h, t, Reject(p, "already-made"), FALSE)
    /\ UNCHANGED <<event, hpc, head, open, pushes, closes, failures, htrace, args,
                 eph, bot>>

pullRequestsGetAllReject(h, t) ==
    /\ pipe[h][t].pc = "pullRequestsGetAll"
    /\ failures < MaxFailures
    /\ failures' = failures + 1
    /\ Step(h, t, Reject(Log(pipe[h][t], <<Err("pullRequestsGetAll", t)>>), "remote-error"),
            FALSE)
    /\ UNCHANGED <<event, hpc, head, open, pushes, closes, htrace, args,
                 eph, bot>>

\* gh.pullRequestsCreate resolves with the new pull request.
pullRequestsCreateResolve(h, t) ==
    /\ pipe[h][t].pc = "pullRequestsCreate"
    /\ open' = CreatePull(t)
    /\ Step(h, t, Log([pipe[h][t] EXCEPT !.pc = "fulfilled", !.value = "pull"],
                      <<Ok("pullRequestsCreate", t, head[ParentOf(t)])>>), FALSE)
    /\ UNCHANGED <<event, hpc, head, pushes, closes, failures, htrace, args,
                 eph, bot>>

pullRequestsCreateReject(h, t) ==
    /\ pipe[h][t].pc = "pullRequestsCreate"
    /\ failures < MaxFailures
    /\ failures' = failures + 1
    /\ Step(h, t, Reject(Log(pipe[h][t], <<Err("pullRequestsCreate", t)>>), "remote-error"),
            FALSE)
    /\ UNCHANGED <<event, hpc, head, open, pushes, closes, htrace, args,
                 eph, bot>>

\* Somebody pushes to the upstream's default branch.
Push ==
    /\ pushes < MaxPushes
    /\ pushes' = pushes + 1
    /\ \E s \in Shas \ {head[Upstream]} : head' = [head EXCEPT ![Upstream] = s]
    /\ UNCHANGED <<event, hpc, pipe, sent, open, closes, failures, htrace, args,
                 eph, bot>>

\* A user closes (or merges) an open pull request of a fork.
ClosePull ==
    /\ closes < MaxCloses
    /\ closes' = closes + 1
    /\ \E t \in Forks, s \in Shas :
          /\ open[t][s] > 0
          /\ open' = [open EXCEPT ![t][s] = @ - 1]
    /\ UNCHANGED <<event, hpc, pipe, sent, head, pushes, failures, htrace, args,
                 eph, bot>>

Next ==
    \/ \E h \in Handlings : webhook(h)
    \/ \E h \in Handlings : reposGetForksResolve(h)
    \/ \E h \in Handlings : reposGetForksReject(h)
    \/ \E h \in Handlings, t \in Repos : reposGetResolve(h, t)
    \/ \E h \in Handlings, t \in Repos : reposGetReject(h, t)
    \/ \E h \in Handlings, t \in Repos : reposGetBranchBaseResolve(h, t)
    \/ \E h \in Handlings, t \in Repos : reposGetBranchUpstreamResolve(h, t)
    \/ \E h \in Handlings, t \in Repos : reposGetBranchBaseReject(h, t)
    \/ \E h \in Handlings, t \in Repos : reposGetBranchUpstreamReject(h, t)
    \/ \E h \in Handlings, t \in Repos : pullRequestsGetAllResolve(h, t)
    \/ \E h \in Handlings, t \in Repos : pullRequestsGetAllReject(h, t)
    \/ \E h \in Handlings, t \in Repos : pullRequestsCreateResolve(h, t)
    \/ \E h \in Handlings, t \in Repos : pullRequestsCreateReject(h, t)
    \/ Push
    \/ ClosePull

Spec == Init /\ [][Next]_vars

\* ------------------------------------------------- postUpdate on its own
\* postUpdate called directly, with any repo argument and any upstreamSha.
InitPublish ==
    /\ event = [h \in Handlings |-> [repo |-> Upstream, fork |-> FALSE]]
    /\ hpc = [h \in Handlings |-> "idle"]
    /\ pipe = [h \in Handlings |-> [t \in Slots |-> IdlePipe]]
    /\ sent = [h \in Handlings |-> <<>>]
    /\ head \in [Repos -> Shas]
    /\ head[Upstream] = 1
    /\ open = [t \in Repos |-> [s \in Shas |-> 0]]
    /\ pushes = 0
    /\ closes = 0
    /\ failures = 0
    /\ htrace = [h \in Handlings |-> <<>>]
    /\ args \in [Handlings -> [repo : Slots, upstreamSha : Shas]]
    /\ eph = [k \in EphCalls |-> IdleEph(Repo1)]
    /\ bot = EmptyBot

\* postUpdate("github", repo, upstreamSha) is called: it throws, or issues
\* the listing.
publish(h) ==
    /\ hpc[h] = "idle"
    /\ hpc' = [hpc EXCEPT ![h] = "postUpdate"]
    /\ pipe' = [pipe EXCEPT ![h][args[h].repo] =
                  postUpdate(IdlePipe, args[h].repo, ParentOf(args[h].repo))]
    /\ UNCHANGED <<event, sent, head, open, pushes, closes, failures, htrace, args,
                 eph, bot>>

NextPublish ==
    \/ \E h \in Handlings : publish(h)
    \/ \E h \in Handlings, t \in Repos : pullRequestsGetAllResolve(h, t)
    \/ \E h \in Handlings, t \in Repos : pullRequestsGetAllReject(h, t)
    \/ \E h \in Handlings, t \in Repos : pullRequestsCreateResolve(h, t)
    \/ \E h \in Handlings, t \in Repos : pullRequestsCreateReject(h, t)
    \/ Push
    \/ ClosePull

SpecPublish == InitPublish /\ [][NextPublish]_vars

\* ------------------------------------------------- the ephemeral mirror
\* createTemporaryRepo(inst, backstrokeBotInstance, repo) and
\* generateEphemeralRepoName(userName, repoName): the calls and the return
\* value are those the tests expect; the branching follows the design.
ServiceAccount == "backstroke-bot"

\* The name is a function of the owner and the repo name; names are tuples,
\* the plain name of a fresh fork is <<repoName>>.
generateEphemeralRepoName(userName, repoName) == <<userName, repoName>>
ephemeralRepoNameOf(src) == generateEphemeralRepoName(src.user, src.name)

\* One entry of eph[k].trace: a call of the remote API with its arguments,
\* or its answer.
EphEv(ev, api, user, repo) ==
    [ev |-> ev, api |-> api, user |-> user, repo |-> repo, name |-> <<>>,
     private |-> FALSE, collabuser |-> "none", permission |-> "none",
     head |-> <<>>, base |-> "none", number |-> 0, code |-> 0]

\* Variant: the mirror is never found.
mirrorPresent_never(repos, src) == FALSE

\* The probe reposGet({user: 'backstroke-bot', repo: ephemeralRepoName})
\* resolves exactly when the service account owns a repo of that name.
mirrorPresent(repos, src) == ephemeralRepoNameOf(src) \in repos

\* Variant: the mirror is always made public.
mirrorPrivate_public(src) == FALSE

\* reposEdit: visibility matching the source.
mirrorPrivate(src) == src.private

\* Variant: always the first pull request of the mirror.
mergeNumber_first(created) == 1

\* pullRequestsMerge: number is the number pullRequestsCreate returned.
mergeNumber(created) == created.number

\* The value createTemporaryRepo resolves with.
ephemeralRepoRef(src) ==
    [type |-> "repo", name |-> <<ServiceAccount, ephemeralRepoNameOf(src)>>,
     private |-> src.private, provider |-> "github", fork |-> TRUE,
     branch |-> src.branch]

probeCall(src) == EphEv("call", "reposGet", ServiceAccount, ephemeralRepoNameOf(src))
forkCall(src) == EphEv("call", "reposFork", src.user, <<src.name>>)
editCall(src) ==
    [EphEv("call", "reposEdit", ServiceAccount, <<src.name>>) EXCEPT
        !.name = ephemeralRepoNameOf(src), !.private = mirrorPrivate(src)]
collaboratorCall(src) ==
    [EphEv("call", "reposAddCollaborator", ServiceAccount, ephemeralRepoNameOf(src))
        EXCEPT !.collabuser = src.user, !.permission = "push"]
createCall(src) ==
    [EphEv("call", "pullRequestsCreate", ServiceAccount, ephemeralRepoNameOf(src))
        EXCEPT !.head = <<src.user, src.branch>>, !.base = ephemeralRepoRef(src).branch]
mergeCall(src, created) ==
    [EphEv("call", "pullRequestsMerge", ServiceAccount, ephemeralRepoNameOf(src))
        EXCEPT !.number = mergeNumber(created)]

\* The answer to the call in flight, then the calls of the continuation.
EphLog(e, answer, calls, pc) ==
    [e EXCEPT !.pc = pc, !.trace = Append(@, answer) \o calls]
EphOk(e) == [e.trace[Len(e.trace)] EXCEPT !.ev = "ok"]
EphErr(e, code) == [e.trace[Len(e.trace)] EXCEPT !.ev = "err", !.code = code]
EphDone(e) == e.pc \in {"fulfilled", "rejected"}

mainVars == <<event, hpc, pipe, sent, head, open, pushes, closes, htrace, args>>

InitEph ==
    /\ event = [h \in Handlings |-> [repo |-> Upstream, fork |-> FALSE]]
    /\ hpc = [h \in Handlings |-> "idle"]
    /\ pipe = [h \in Handlings |-> [t \in Slots |-> IdlePipe]]
    /\ sent = [h \in Handlings |-> <<>>]
    /\ head = [r \in Repos |-> 1]
    /\ open = [t \in Repos |-> [s \in Shas |-> 0]]
    /\ pushes = 0
    /\ closes = 0
    /\ failures = 0
    /\ htrace = [h \in Handlings |-> <<>>]
    /\ args = [h \in Handlings |-> NoArgs]
    /\ \E srcs \in [EphCalls -> SourceRepos] : eph = [k \in EphCalls |-> IdleEph(srcs[k])]
    /\ \E mirrors \in SUBSET SourceRepos :
          bot = [EmptyBot EXCEPT
                   !.repos = {ephemeralRepoNameOf(m) : m \in mirrors},
                   !.private = {ephemeralRepoNameOf(m) : m \in {x \in mirrors : x.private}}]

\* createTemporaryRepo is called: it probes for the mirror.
createTemporaryRepo(k) ==
    /\ eph[k].pc = "idle"
    /\ eph' = [eph EXCEPT ![k] =
                 [@ EXCEPT !.pc = "reposGet", !.trace = <<probeCall(eph[k].src)>>,
                           !.after = {j \in EphCalls : EphDone(eph[j])}]]
    /\ UNCHANGED <<mainVars, failures, bot>>

\* The probe resolves: the mirror is there, a pull request is opened on it.
ephReposGetResolve(k) ==
    /\ eph[k].pc = "reposGet"
    /\ mirrorPresent(bot.repos, eph[k].src)
    /\ eph' = [eph EXCEPT ![k] =
                 EphLog(@, EphOk(@), <<createCall(eph[k].src)>>, "pullRequestsCreate")]
    /\ UNCHANGED <<mainVars, failures, bot>>

\* The probe rejects with {code: 422}: the source is forked.
ephReposGetNotFound(k) ==
    /\ eph[k].pc = "reposGet"
    /\ ~mirrorPresent(bot.repos, eph[k].src)
    /\ eph' = [eph EXCEPT ![k] =
                 EphLog(@, EphErr(@, 422), <<forkCall(eph[k].src)>>, "reposFork")]
    /\ UNCHANGED <<mainVars, failures, bot>>

\* The fork exists under the service account, under the source's name.
reposForkResolve(k) ==
    /\ eph[k].pc = "reposFork"
    /\ bot' = [bot EXCEPT !.repos = @ \cup {<<eph[k].src.name>>}]
    /\ eph' = [eph EXCEPT ![k] =
                 EphLog(@, EphOk(@), <<editCall(eph[k].src)>>, "reposEdit")]
    /\ UNCHANGED <<mainVars, failures>>

\* The fork is renamed and its visibility set.
reposEditResolve(k) ==
    /\ eph[k].pc = "reposEdit"
    /\ LET call == eph[k].trace[Len(eph[k].trace)]
       IN /\ call.repo \in bot.repos
          /\ bot' = [bot EXCEPT
                       !.repos = (@ \ {call.repo}) \cup {call.name},
                       !.private = IF call.private THEN @ \cup {call.name}
                                   ELSE @ \ {call.name}]
    /\ eph' = [eph EXCEPT ![k] =
                 EphLog(@, EphOk(@), <<collaboratorCall(eph[k].src)>>,
                        "reposAddCollaborator")]
    /\ UNCHANGED <<mainVars, failures>>

\* The fork to rename is gone (another invocation renamed it).
reposEditNotFound(k) ==
    /\ eph[k].pc = "reposEdit"
    /\ eph[k].trace[Len(eph[k].trace)].repo \notin bot.repos
    /\ eph' = [eph EXCEPT ![k] = EphLog(@, EphErr(@, 404), <<>>, "rejected")]
    /\ UNCHANGED <<mainVars, failures, bot>>

\* The owner of the source may push to the mirror; the reference is returned.
reposAddCollaboratorResolve(k) ==
    /\ eph[k].pc = "reposAddCollaborator"
    /\ LET call == eph[k].trace[Len(eph[k].trace)]
       IN bot' = [bot EXCEPT !.collab = @ \cup {<<call.repo, call.collabuser>>}]
    /\ eph' = [eph EXCEPT ![k] =
                 [EphLog(@, EphOk(@), <<>>, "fulfilled") EXCEPT
                     !.ret = {ephemeralRepoRef(eph[k].src)}]]
    /\ UNCHANGED <<mainVars, failures>>

\* The pull request is opened; the host numbers the pull requests of a repo
\* from 1.  It is merged next.
ephPullRequestsCreateResolve(k) ==
    /\ eph[k].pc = "pullRequestsCreate"
    /\ LET call == eph[k].trace[Len(eph[k].trace)]
           n == Cardinality({q \in bot.pulls : q.repo = call.repo}) + 1
           created == [EphOk(eph[k]) EXCEPT !.number = n]
       IN /\ bot' = [bot EXCEPT !.pulls = @ \cup
                       {[repo |-> call.repo, number |-> n, head |-> call.head,
                         base |-> call.base, merged |-> FALSE]}]
          /\ eph' = [eph EXCEPT ![k] =
                       [EphLog(@, created, <<mergeCall(eph[k].src, created)>>,
                               "pullRequestsMerge") EXCEPT !.number = n]]
    /\ UNCHANGED <<mainVars, failures>>

\* The pull request of that number is merged; the reference is returned.
pullRequestsMergeResolve(k) ==
    /\ eph[k].pc = "pullRequestsMerge"
    /\ LET call == eph[k].trace[Len(eph[k].trace)]
       IN \E q \in bot.pulls :
             /\ q.repo = call.repo
             /\ q.number = call.number
             /\ ~q.merged
             /\ bot' = [bot EXCEPT !.pulls = (@ \ {q}) \cup {[q EXCEPT !.merged = TRUE]}]
    /\ eph' = [eph EXCEPT ![k] =
                 [EphLog(@, EphOk(@), <<>>, "fulfilled") EXCEPT
                     !.ret = {ephemeralRepoRef(eph[k].src)}]]
    /\ UNCHANGED <<mainVars, failures>>

\* Any call fails for another reason: createTemporaryRepo rejects.
ephCallReject(k) ==
    /\ eph[k].pc \notin {"idle", "fulfilled", "rejected"}
    /\ failures < MaxFailures
    /\ failures' = failures + 1
    /\ eph' = [eph EXCEPT ![k] = EphLog(@, EphErr(@, 500), <<>>, "rejected")]
    /\ UNCHANGED <<mainVars, bot>>

NextEph ==
    \/ \E k \in EphCalls : createTemporaryRepo(k)
    \/ \E k \in EphCalls : ephReposGetResolve(k)
    \/ \E k \in EphCalls : ephReposGetNotFound(k)
    \/ \E k \in EphCalls : reposForkResolve(k)
    \/ \E k \in EphCalls : reposEditResolve(k)
    \/ \E k \in EphCalls : reposEditNotFound(k)
    \/ \E k \in EphCalls : reposAddCollaboratorResolve(k)
    \/ \E k \in EphCalls : ephPullRequestsCreateResolve(k)
    \/ \E k \in EphCalls : pullRequestsMergeResolve(k)
    \/ \E k \in EphCalls : ephCallReject(k)

SpecEph == InitEph /\ [][NextEph]_vars

\* ----------------------------------------------------------------- claims
\* The upstreamSha of the pipeline's detection result (0: no result yet).
UpstreamShaOf(p) ==
    IF p.result = {} THEN 0 ELSE (CHOOSE r \in p.result : TRUE).upstreamSha

\* Publish of handling h ran for target t (postUpdate issued its listing).
Published(h, t) ==
    \E i \in 1..Len(pipe[h][t].trace) :
        /\ pipe[h][t].trace[i].ev = "call"
        /\ pipe[h][t].trace[i].api = "pullRequestsGetAll"

AtMostOneOpen(t) == \A s \in Shas : open[t][s] <= 1

\* C1 (as stated): in every reachable state the remote host holds at most
\* one open proposal per (fork, headSha) pair, whatever the interleaving of
\* the handlings.
C1_AtMostOnePerForkAndSha == \A t \in Repos : AtMostOneOpen(t)

\* C1 (amended): a createProposal that lands while the fork's open proposals
\* are still the ones its own listOpenProposals returned, and the parent's
\* head is still the upstreamSha it detected, leaves at most one open
\* proposal per (fork, headSha) pair.
C1_NoDuplicateWhenListingCurrent ==
    [][\A h \in Handlings, t \in Repos :
          ( /\ pipe[h][t].pc = "pullRequestsCreate"
            /\ pipe'[h][t].pc = "fulfilled"
            /\ pipe[h][t].existingPulls = {open[t]}
            /\ head[ParentOf(t)] = UpstreamShaOf(pipe[h][t])
            /\ AtMostOneOpen(t) )
          => AtMostOneOpen(t)']_vars

\* Two handlings published for the same fork and the same upstreamSha: one
\* created the proposal, the other found it and skipped.
C1_Witness ==
    \E h1, h2 \in Handlings, t \in Forks :
        /\ h1 # h2
        /\ pipe[h1][t].value = "pull"
        /\ pipe[h2][t].err = "already-made"
        /\ UpstreamShaOf(pipe[h1][t]) = UpstreamShaOf(pipe[h2][t])
        /\ open[t][UpstreamShaOf(pipe[h2][t])] = 1

\* Trace helpers.
Has(p, e) == \E i \in 1..Len(p.trace) : p.trace[i] = e
HasEv(p, ev, api) ==
    \E i \in 1..Len(p.trace) : p.trace[i].ev = ev /\ p.trace[i].api = api
Before(p, ev1, api1, r1, ev2, api2) ==
    \A i \in 1..Len(p.trace) :
        (p.trace[i].ev = ev2 /\ p.trace[i].api = api2)
        => \E j \in 1..(i - 1) :
              /\ p.trace[j].ev = ev1
              /\ p.trace[j].api = api1
              /\ p.trace[j].repo = r1

InFlight(p) ==
    \/ p.pc \notin {"idle", "fulfilled", "rejected"}
    \/ p.base = "pending"
    \/ p.upstream = "pending"

FanOut(h) == hpc[h] = "isParentFindForks"

\* Handling h has nothing left to run: every remote call it issued settled.
Quiescent(h) ==
    /\ hpc[h] \notin {"idle", "reposGetForks"}
    /\ \A t \in Repos : ~InFlight(pipe[h][t])

\* C2: in the fan-out flow a fork's pipeline is never ended by a sibling's
\* failure: while in flight its next remote answer can still be taken, it is
\* rejected only by a failure or a duplicate of its own, and once fulfilled
\* for a diverged fork its proposal has been created.
C2_SiblingFailureIsolated ==
    \A h \in Handlings : FanOut(h) =>
        \A t \in Targets(h) :
            LET p == pipe[h][t]
            IN /\ p.pc = "rejected" =>
                    \/ \E i \in 1..Len(p.trace) : p.trace[i].ev = "err"
                    \/ /\ p.err = "already-made"
                       /\ \E l \in p.existingPulls : l[UpstreamShaOf(p)] > 0
               /\ p.pc = "reposGet" => ENABLED reposGetResolve(h, t)
               /\ p.pc = "reposGetBranch" =>
                    ENABLED (\/ reposGetBranchBaseResolve(h, t)
                             \/ reposGetBranchUpstreamResolve(h, t))
               /\ p.pc = "pullRequestsGetAll" => ENABLED pullRequestsGetAllResolve(h, t)
               /\ p.pc = "pullRequestsCreate" => ENABLED pullRequestsCreateResolve(h, t)
               /\ (p.pc = "fulfilled" /\ \E r \in p.result : r.diverged) =>
                    /\ p.value = "pull"
                    /\ HasEv(p, "ok", "pullRequestsCreate")

\* One fork's pipeline failed and a sibling's proposal was created.
C2_Witness ==
    \E h \in Handlings, t1, t2 \in Forks :
        /\ FanOut(h)
        /\ t1 # t2
        /\ pipe[h][t1].pc = "rejected"
        /\ pipe[h][t1].err = "remote-error"
        /\ pipe[h][t2].value = "pull"
        /\ open[t2][UpstreamShaOf(pipe[h][t2])] >= 1

\* C3: once a fan-out dispatch has run to its end, its outcome has been
\* reported, with the number of proposals opened (whatever the completion
\* order, also when a fork failed).  The outcome of the claim has, besides,
\* the number of forks skipped and the list of failed forks; the only
\* aggregate the handler sends is the Opened count.
C3_AggregateReported ==
    \A h \in Handlings : (FanOut(h) /\ Quiescent(h)) =>
        sent[h] = <<Opened(Cardinality({t \in Targets(h) : pipe[h][t].value = "pull"}))>>

\* C4: a handling that has run to its end has acknowledged, and no
\* acknowledgment carries the remote API's error text.
C4_AlwaysAcknowledged ==
    \A h \in Handlings :
        /\ Quiescent(h) => sent[h] # <<>>
        /\ \A i \in 1..Len(sent[h]) : sent[h][i].err # "remote-error"

\* C5: when the listing of a publish is answered while a proposal that an
\* earlier publish created for the same fork with the same upstreamSha as head
\* SHA is open, the publish issues no createProposal and the fork keeps that
\* one proposal.
C5_SecondPublishCreatesNothing ==
    [][\A h1, h2 \in Handlings, t \in Repos :
          ( /\ h1 # h2
            /\ pipe[h2][t].pc = "pullRequestsGetAll"
            /\ pipe'[h2][t].pc # "pullRequestsGetAll"
            /\ pipe'[h2][t].existingPulls # {}
            /\ pipe[h1][t].value = "pull"
            /\ Has(pipe[h1][t], Ok("pullRequestsCreate", t, UpstreamShaOf(pipe[h1][t])))
            /\ UpstreamShaOf(pipe[h1][t]) = UpstreamShaOf(pipe[h2][t])
            /\ open[t][UpstreamShaOf(pipe[h2][t])] >= 1 )
          => /\ pipe'[h2][t].pc = "rejected"
             /\ ~HasEv(pipe'[h2][t], "call", "pullRequestsCreate")
             /\ open' = open]_vars

\* The second publish for the fork has run and created nothing.
C5_Witness ==
    \E h1, h2 \in Handlings, t \in Forks :
        /\ h1 # h2
        /\ Has(pipe[h1][t], Ok("pullRequestsCreate", t, UpstreamShaOf(pipe[h1][t])))
        /\ Published(h2, t)
        /\ HasEv(pipe[h2][t], "ok", "pullRequestsGetAll")
        /\ UpstreamShaOf(pipe[h1][t]) = UpstreamShaOf(pipe[h2][t])
        /\ pipe[h2][t].existingPulls = {open[t]}
        /\ ~HasEv(pipe[h2][t], "call", "pullRequestsCreate")
        /\ open[t][UpstreamShaOf(pipe[h2][t])] = 1

\* C6: a handling whose publish found a duplicate reports no error.
C6_DuplicateIsBenign ==
    \A h \in Handlings, t \in Repos :
        pipe[h][t].err = "already-made" =>
            \A i \in 1..Len(sent[h]) : sent[h][i].kind # "uhh-error"

\* C7: in the fan-out flow nothing is sent while a fork's pipeline is in
\* flight, and the count is sent only once every listed fork's pipeline has
\* settled.
C7_ResponseAfterAllSettled ==
    \A h \in Handlings : (~event[h].fork /\ sent[h] # <<>>) =>
        /\ \A t \in Repos : ~InFlight(pipe[h][t])
        /\ (\E i \in 1..Len(sent[h]) : sent[h][i].kind = "opened") =>
              \A t \in ForksOf(event[h].repo) : Settled(pipe[h][t])

\* The count was sent for a fan-out over several forks, one with a proposal.
C7_Witness ==
    \E h \in Handlings :
        /\ FanOut(h)
        /\ Cardinality(Targets(h)) >= 2
        /\ \E n \in 1..MaxForks : sent[h] = <<Opened(n)>>

\* C8: within one pipeline both branch fetches are answered before the
\* listing is issued, the listing is answered before createProposal is
\* issued, and createProposal is issued only after detection returned
\* diverged = true.
C8_PipelineOrder ==
    \A h \in Handlings, t \in Repos :
        LET p == pipe[h][t]
        IN /\ Before(p, "ok", "reposGetBranch", t, "call", "pullRequestsGetAll")
           /\ Before(p, "ok", "reposGetBranch", ParentOf(t), "call", "pullRequestsGetAll")
           /\ Before(p, "ok", "pullRequestsGetAll", t, "call", "pullRequestsCreate")
           /\ HasEv(p, "call", "pullRequestsCreate") =>
                \E r \in p.result : r.diverged

\* A pipeline has issued createProposal.
C8_Witness ==
    \E h \in Handlings, t \in Forks :
        /\ pipe[h][t].pc = "pullRequestsCreate"
        /\ Len(pipe[h][t].trace) = 9

\* C9: detection of a repository whose metadata has no parent fails with the
\* not-a-fork error, yields no result and issues no branch fetch.
C9_NotAForkNoBranchFetch ==
    \A h \in Handlings, t \in Repos :
        LET p == pipe[h][t]
        IN (ParentOf(t) = NoParent /\ HasEv(p, "ok", "reposGet")) =>
              /\ p.pc = "rejected"
              /\ p.err = "not-a-fork"
              /\ p.result = {}
              /\ ~HasEv(p, "call", "reposGetBranch")

\* Detection ran on the upstream itself and its metadata was fetched.
C9_Witness ==
    \E h \in Handlings :
        /\ HasEv(pipe[h][Upstream], "ok", "reposGet")
        /\ sent[h] = <<UhhError("not-a-fork")>>

\* The sha the host answered for the branch of repo r in pipeline p.
Fetched(p, r) ==
    (CHOOSE e \in {p.trace[i] : i \in 1..Len(p.trace)} :
        e.ev = "ok" /\ e.api = "reposGetBranch" /\ e.repo = r).sha

\* C10: once the metadata and both branch heads are fetched, detection
\* returns diverged = (the two fetched SHAs differ), baseSha = the fetched
\* fork head, upstreamSha = the fetched parent head.
C10_DetectionResult ==
    \A h \in Handlings, t \in Repos :
        LET p == pipe[h][t]
        IN (/\ Has(p, Ok("reposGet", t, 0))
            /\ \E s \in Shas : Has(p, Ok("reposGetBranch", t, s))
            /\ \E s \in Shas : Has(p, Ok("reposGetBranch", ParentOf(t), s))) =>
              p.result = {[diverged |-> Fetched(p, t) # Fetched(p, ParentOf(t)),
                           baseSha |-> Fetched(p, t),
                           upstreamSha |-> Fetched(p, ParentOf(t))]}

\* One detection returned diverged and another one not diverged.
C10_Witness ==
    \E h1, h2 \in Handlings, t1, t2 \in Forks :
        /\ \E r \in pipe[h1][t1].result :
              r.diverged /\ r.baseSha # r.upstreamSha /\ r.upstreamSha = head[Upstream]
        /\ \E r \in pipe[h2][t2].result : ~r.diverged /\ r.baseSha = r.upstreamSha


\* C11: when detection returns diverged = false, the pipeline issues neither
\* listOpenProposals nor createProposal, the step that returns it leaves the
\* host's proposals as they are, and the fork-pushed flow answers with the
\* no-op acknowledgment.
C11_NotDivergedNoProposal ==
    [][\A h \in Handlings, t \in Repos :
          (\E r \in pipe'[h][t].result : ~r.diverged) =>
              /\ ~HasEv(pipe'[h][t], "call", "pullRequestsGetAll")
              /\ ~HasEv(pipe'[h][t], "call", "pullRequestsCreate")
              /\ pipe'[h][t].value = "null"
              /\ (pipe[h][t].result = {} => open' = open)
              /\ (hpc'[h] = "isForkMergeUpstream" =>
                    /\ Len(sent'[h]) >= 1
                    /\ sent'[h][1] = ThanksAnyway)]_vars

\* Detection returned not diverged in a fork-pushed and in a fan-out handling.
C11_Witness ==
    \E h1, h2 \in Handlings, t1, t2 \in Forks :
        /\ hpc[h1] = "isForkMergeUpstream"
        /\ \E r \in pipe[h1][t1].result : ~r.diverged
        /\ sent[h1][1] = ThanksAnyway
        /\ FanOut(h2)
        /\ \E r \in pipe[h2][t2].result : ~r.diverged


\* The calls of an invocation, in the order issued.
EphCallsOf(e) == SelectSeq(e.trace, LAMBDA x : x.ev = "call")
EphCalled(e, api) == \E i \in 1..Len(e.trace) : e.trace[i].ev = "call" /\ e.trace[i].api = api
IsPrefix(s, t) == Len(s) <= Len(t) /\ \A i \in 1..Len(s) : s[i] = t[i]
\* Every call but the first is issued right after the previous call resolved.
OneAtATime(e) ==
    \A i \in 1..Len(e.trace) :
        IF i % 2 = 1 THEN e.trace[i].ev = "call"
        ELSE /\ e.trace[i].ev \in {"ok", "err"}
             /\ e.trace[i].api = e.trace[i - 1].api
             /\ (i < Len(e.trace) => e.trace[i].ev = "ok" \/ e.trace[i].code = 422)
\* The probe found no mirror / found the mirror.
Absent(e) == Len(e.trace) >= 2 /\ e.trace[2].ev = "err" /\ e.trace[2].code = 422
Present(e) == Len(e.trace) >= 2 /\ e.trace[2].ev = "ok"

\* C12: when an invocation of createTemporaryRepo creates the mirror of a
\* source and returns, an invocation for the same source that starts
\* afterwards issues no reposFork (one reposFork in the two together), and
\* when it returns, the name of its reference is the name the first returned.
C12_SecondCallReuses ==
    \A k1, k2 \in EphCalls :
        ( /\ k1 \in eph[k2].after
          /\ eph[k1].src = eph[k2].src
          /\ eph[k1].pc = "fulfilled"
          /\ EphCalled(eph[k1], "reposFork") )
        => /\ Len(SelectSeq(eph[k1].trace \o eph[k2].trace,
                            LAMBDA x : x.ev = "call" /\ x.api = "reposFork")) = 1
           /\ ~Absent(eph[k2])
           /\ \A r1 \in eph[k1].ret, r2 \in eph[k2].ret :
                 /\ r1.name = r2.name
                 /\ r1.name = <<ServiceAccount,
                                generateEphemeralRepoName(eph[k1].src.user, eph[k1].src.name)>>

\* The first invocation created the mirror, the second, started after it,
\* has returned too.
C12_Witness ==
    \E k1, k2 \in EphCalls :
        /\ k1 \in eph[k2].after
        /\ eph[k1].src = eph[k2].src
        /\ eph[k1].pc = "fulfilled"
        /\ EphCalled(eph[k1], "reposFork")
        /\ eph[k2].pc = "fulfilled"
        /\ eph[k2].ret = eph[k1].ret

\* C13: when the probe fails with not found, the calls of createTemporaryRepo
\* are the probe, reposFork of the source, reposEdit renaming the fork to the
\* ephemeral name with the visibility of the source, and
\* reposAddCollaborator giving the owner of the source push access, each
\* issued after the one before resolved; no pull request is created or
\* merged, and the value returned has fork = true and the name
\* backstroke-bot/ephemeralName.
C13_AbsentCreatesMirror ==
    \A k \in EphCalls :
        Absent(eph[k]) =>
            LET src == eph[k].src
                name == generateEphemeralRepoName(src.user, src.name)
                rename == [EphEv("call", "reposEdit", ServiceAccount, <<src.name>>)
                             EXCEPT !.name = name, !.private = src.private]
                grant == [EphEv("call", "reposAddCollaborator", ServiceAccount, name)
                             EXCEPT !.collabuser = src.user, !.permission = "push"]
            IN /\ IsPrefix(EphCallsOf(eph[k]),
                           <<EphEv("call", "reposGet", ServiceAccount, name),
                             EphEv("call", "reposFork", src.user, <<src.name>>),
                             rename, grant>>)
               /\ OneAtATime(eph[k])
               /\ ~EphCalled(eph[k], "pullRequestsCreate")
               /\ ~EphCalled(eph[k], "pullRequestsMerge")
               /\ (eph[k].pc = "fulfilled" =>
                     /\ Len(EphCallsOf(eph[k])) = 4
                     /\ name \in bot.repos
                     /\ (name \in bot.private <=> src.private)
                     /\ <<name, src.user>> \in bot.collab
                     /\ \E r \in eph[k].ret : r.fork /\ r.name = <<ServiceAccount, name>>)

\* An invocation for a private source found no mirror, created it and returned.
C13_Witness ==
    \E k \in EphCalls :
        /\ Absent(eph[k])
        /\ eph[k].src.private
        /\ eph[k].pc = "fulfilled"
        /\ Len(eph[k].trace) = 8


\* C14: when the probe finds the mirror, the calls of createTemporaryRepo are
\* the probe, pullRequestsCreate on the mirror with head
\* sourceOwner:sourceBranch and base the mirror's branch, and, once that has
\* resolved, pullRequestsMerge of exactly the number it returned; nothing is
\* forked, edited or shared, and the value returned is the mirror's reference
\* with fork = true.
C14_PresentMergesCreated ==
    \A k \in EphCalls :
        Present(eph[k]) =>
            LET src == eph[k].src
                name == generateEphemeralRepoName(src.user, src.name)
                calls == EphCallsOf(eph[k])
            IN /\ Len(calls) <= 3
               /\ calls[1] = EphEv("call", "reposGet", ServiceAccount, name)
               /\ calls[2] = [EphEv("call", "pullRequestsCreate", ServiceAccount, name)
                                EXCEPT !.head = <<src.user, src.branch>>,
                                       !.base = src.branch]
               /\ OneAtATime(eph[k])
               /\ (Len(calls) = 3 =>
                     /\ eph[k].trace[4].ev = "ok"
                     /\ eph[k].trace[4].api = "pullRequestsCreate"
                     /\ calls[3] = [EphEv("call", "pullRequestsMerge", ServiceAccount, name)
                                      EXCEPT !.number = eph[k].trace[4].number]
                     /\ \E q \in bot.pulls :
                           /\ q.repo = name
                           /\ q.number = calls[3].number
                           /\ q.head = <<src.user, src.branch>>)
               /\ (eph[k].pc = "fulfilled" =>
                     /\ Len(calls) = 3
                     /\ \E q \in bot.pulls :
                           q.repo = name /\ q.number = eph[k].number /\ q.merged
                     /\ \E r \in eph[k].ret :
                           r.fork /\ r.name = <<ServiceAccount, name>>
                                  /\ r.branch = src.branch)

\* Two invocations found the mirror; the second merged pull request 2.
C14_Witness ==
    \E k1, k2 \in EphCalls :
        /\ k1 # k2
        /\ Present(eph[k1]) /\ eph[k1].pc = "fulfilled" /\ eph[k1].number = 1
        /\ Present(eph[k2]) /\ eph[k2].pc = "fulfilled" /\ eph[k2].number = 2


\* C15: every pull request is created in the fork's own repo, with head
\* parentOwner:parentDefaultBranch and base the fork's default branch; the
\* listing that checks for duplicates is of the same repo, filtered by the
\* same head; and a creation adds a pull request to that fork only.
C15_ProposalCoordinates ==
    [][\A h \in Handlings, t \in Repos :
          LET tr == pipe'[h][t].trace
              hd == [owner |-> Login(ParentOf(t)), branch |-> DefaultBranch(ParentOf(t))]
          IN /\ \A i \in 1..Len(tr) :
                  /\ (tr[i].ev = "call" /\ tr[i].api = "pullRequestsGetAll") =>
                        tr[i].repo = t /\ tr[i].head = hd
                  /\ (tr[i].ev = "call" /\ tr[i].api = "pullRequestsCreate") =>
                        /\ tr[i].repo = t
                        /\ tr[i].head = hd
                        /\ tr[i].base = DefaultBranch(t)
                        /\ \E j \in 1..(i - 1) :
                              /\ tr[j].ev = "call"
                              /\ tr[j].api = "pullRequestsGetAll"
                              /\ tr[j].repo = tr[i].repo
                              /\ tr[j].head = tr[i].head
             /\ (pipe[h][t].pc = "pullRequestsCreate" /\ pipe'[h][t].pc = "fulfilled") =>
                  \A u \in Repos \ {t} : open'[u] = open[u]]_vars

\* A pull request was created on the fork whose default branch is not the
\* parent's.
C15_Witness ==
    \E h \in Handlings, t \in Forks :
        /\ DefaultBranch(t) # DefaultBranch(ParentOf(t))
        /\ pipe[h][t].pc = "fulfilled"
        /\ pipe[h][t].value = "pull"
        /\ \E s \in Shas : open[t][s] > 0


\* C16: postUpdate called with an absent repo fails with the no-repository
\* error, and called with a repo without parent fails with the not-a-fork
\* error; in both cases it issues no pullRequestsGetAll and no
\* pullRequestsCreate and leaves the host as it is.
C16_PublishPreconditions ==
    [][\A h \in Handlings :
          (hpc[h] = "idle" /\ hpc'[h] = "postUpdate") =>
              LET t == args[h].repo
                  p == pipe'[h][t]
              IN /\ t \notin Repos =>
                      /\ p.pc = "rejected" /\ p.err = "no-repository"
                      /\ p.trace = <<>> /\ head' = head /\ open' = open
                 /\ (t \in Repos /\ ParentOf(t) = NoParent) =>
                      /\ p.pc = "rejected" /\ p.err = "not-a-fork"
                      /\ p.trace = <<>> /\ head' = head /\ open' = open]_vars


\* The calls of api on repo r in a trace.
Calls(tr, api, r) ==
    Len(SelectSeq(tr, LAMBDA x : x.ev = "call" /\ x.api = api /\ x.repo = r))
AllCalls(tr) == Len(SelectSeq(tr, LAMBDA x : x.ev = "call"))

\* C17: within one handling each target has at most one reposGet, at most
\* one reposGetBranch per side, at most one pullRequestsGetAll and at most
\* one pullRequestsCreate, no call on any other repo, and once its chain has
\* failed no further call is issued for it.
C17_NoRetries ==
    [][\A h \in Handlings, t \in Repos :
          LET tr == pipe'[h][t].trace
          IN /\ Calls(tr, "reposGet", t) <= 1
             /\ Calls(tr, "reposGetBranch", t) <= 1
             /\ Calls(tr, "reposGetBranch", ParentOf(t)) <= 1
             /\ Calls(tr, "pullRequestsGetAll", t) <= 1
             /\ Calls(tr, "pullRequestsCreate", t) <= 1
             /\ AllCalls(tr) <= 5
             /\ (pipe[h][t].pc = "rejected" =>
                   /\ pipe'[h][t].pc = "rejected"
                   /\ AllCalls(tr) = AllCalls(pipe[h][t].trace))]_vars

\* The listing of a target failed, and every chain of that fan-out has
\* settled.
C17_Witness ==
    \E h \in Handlings, t \in Forks :
        /\ FanOut(h)
        /\ pipe[h][t].pc = "rejected"
        /\ Has(pipe[h][t], Err("pullRequestsGetAll", t))
        /\ \A u \in Forks \ {t} : Settled(pipe[h][u])


\* C18: a handling whose event has fork = true runs detection on the pushed
\* repo only and never calls reposGetForks; one whose event has fork = false
\* calls reposGetForks once, on the pushed repo, and runs detection once for
\* each fork returned and for no other repo.
C18_EventClassification ==
    \A h \in Handlings :
        LET repo == event[h].repo
            listed == \E i \in 1..Len(htrace[h]) : htrace[h][i].ev = "ok"
        IN IF event[h].fork
           THEN /\ htrace[h] = <<>>
                /\ hpc[h] \in {"idle", "isForkMergeUpstream"}
                /\ \A t \in Repos \ {repo} : pipe[h][t] = IdlePipe
                /\ (hpc[h] # "idle" => Calls(pipe[h][repo].trace, "reposGet", repo) = 1)
           ELSE /\ hpc[h] # "isForkMergeUpstream"
                /\ (hpc[h] # "idle" =>
                      /\ Calls(htrace[h], "reposGetForks", repo) = 1
                      /\ AllCalls(htrace[h]) = 1)
                /\ \A t \in Repos :
                      IF listed /\ t \in ForksOf(repo)
                      THEN Calls(pipe[h][t].trace, "reposGet", t) = 1
                      ELSE pipe[h][t] = IdlePipe

\* A fork-pushed handling is detecting while a fan-out has listed the forks
\* and started a detection for each.
C18_Witness ==
    \E h1, h2 \in Handlings :
        /\ event[h1].fork /\ hpc[h1] = "isForkMergeUpstream"
        /\ ~event[h2].fork /\ hpc[h2] = "isParentFindForks"
        /\ \A t \in Forks : Calls(pipe[h2][t].trace, "reposGet", t) = 1


\* C19: in a detection both reposGetBranch calls, of the fork and of its
\* parent, are issued before either is answered, and when either fails the
\* detection is rejected: it has no result and nothing is published.
C19_BranchFetchesConcurrent ==
    \A h \in Handlings, t \in Repos :
        LET tr == pipe[h][t].trace
        IN /\ \A i \in 1..Len(tr) :
                (tr[i].api = "reposGetBranch" /\ tr[i].ev # "call") =>
                    /\ \E j \in 1..(i - 1) : tr[j] = Call("reposGetBranch", t)
                    /\ \E j \in 1..(i - 1) : tr[j] = Call("reposGetBranch", ParentOf(t))
           /\ (\E i \in 1..Len(tr) : tr[i].api = "reposGetBranch" /\ tr[i].ev = "err") =>
                /\ pipe[h][t].pc = "rejected"
                /\ pipe[h][t].err = "remote-error"
                /\ pipe[h][t].result = {}
                /\ ~HasEv(pipe[h][t], "call", "pullRequestsGetAll")

\* The fetch of the parent's branch failed while the fork's was in flight,
\* and the fork's was answered afterwards.
C19_Witness ==
    \E h \in Handlings, t \in Forks :
        LET tr == pipe[h][t].trace
        IN /\ Len(tr) = 6
           /\ tr[5] = Err("reposGetBranch", ParentOf(t))
           /\ tr[6].ev = "ok" /\ tr[6].repo = t
           /\ pipe[h][t].pc = "rejected"


\* C20: a handling calls res.send at most once, on every path of the
\* fork-pushed flow and of the fan-out flow.
C20_AtMostOneResponse ==
    \A h \in Handlings : Len(sent[h]) <= 1


DivergedForks(h) ==
    {t \in ForksOf(event[h].repo) : \E r \in pipe[h][t].result : r.diverged}

\* C22: in a fan-out in which the pipeline of every fork listed is
\* fulfilled, also when no fork is listed, the one response sent is the count
\* of pull requests opened, and that count is the number of forks detected
\* as diverged and the number of pullRequestsCreate calls of the handling.
C22_CountIsDivergedIsCreated ==
    \A h \in Handlings :
        (FanOut(h) /\ \A t \in ForksOf(event[h].repo) : pipe[h][t].pc = "fulfilled") =>
            /\ sent[h] = <<Opened(Cardinality(DivergedForks(h)))>>
            /\ \A t \in Repos :
                  Calls(pipe[h][t].trace, "pullRequestsCreate", t)
                     = IF t \in DivergedForks(h) THEN 1 ELSE 0
            /\ \A t, u \in Repos :
                  u # t => Calls(pipe[h][t].trace, "pullRequestsCreate", u) = 0

\* A fan-out over two forks, one diverged and one not, answered with the
\* count 1, and a fan-out that listed no fork, answered with the count 0.
C22_Witness ==
    \E h1, h2 \in Handlings :
        /\ FanOut(h1)
        /\ Cardinality(ForksOf(event[h1].repo)) >= 2
        /\ \A t \in ForksOf(event[h1].repo) : pipe[h1][t].pc = "fulfilled"
        /\ Cardinality(DivergedForks(h1)) = 1
        /\ sent[h1] = <<Opened(1)>>
        /\ FanOut(h2)
        /\ ForksOf(event[h2].repo) = {}
        /\ sent[h2] = <<Opened(0)>>


\* gh.reposGetForks of handling h failed.
ListForksFailed(h) ==
    \E i \in 1..Len(htrace[h]) :
        htrace[h][i].ev = "err" /\ htrace[h][i].api = "reposGetForks"

\* C23: when the reposGetForks call of a fan-out fails, the handler sends
\* exactly one response, the error, and issues no reposGet, reposGetBranch,
\* pullRequestsGetAll or pullRequestsCreate for any repo, then or later.
C23_ListForksFailure ==
    \A h \in Handlings :
        ListForksFailed(h) =>
            /\ Len(sent[h]) = 1
            /\ sent[h][1].kind = "uhh-error"
            /\ \A t \in Slots : pipe[h][t] = IdlePipe
            /\ AllCalls(htrace[h]) = 1
            /\ \A a \in Handlings, t \in Repos : ~ENABLED
                  (a = h /\ (reposGetResolve(a, t) \/ reposGetReject(a, t)))

\* The listing of forks failed, and the other handling ran a detection
\* meanwhile.
C23_Witness ==
    \E h1, h2 \in Handlings :
        /\ ListForksFailed(h1)
        /\ sent[h1] = <<UhhError("remote-error")>>
        /\ \E t \in Repos : pipe[h2][t].pc = "reposGetBranch"

====
